---- MODULE Spec2Model ----
(***************************************************************************)
(* Model of package queue (src/queue/queue.go): the shared beanstalk       *)
(* connection guarded by a mutex, and the operations Put, Get, Delete and  *)
(* Message.Release built on it.  Goroutines are the processes of Procs;    *)
(* every step is one access to shared state (conn, mut, the queue server). *)
(***************************************************************************)
EXTENDS Integers, Sequences, FiniteSets, TLC

\* ------------------------------------------------------------------ bounds
\* connections the server accepts before it refuses every further dial
MaxConns == 3
\* jobs the server stores before it refuses every further put
MaxJobs == 2

\* goroutines calling into the package
Procs == {"g1", "g2"}

\* the nil *beanstalk.Conn, and the zero message id
NilConn == 0
NoId == 0

\* conn.Put(buf.Bytes(), 1, 0, 60e9) and conn.Release(m.id, 1, 0): the
\* priority and the delay each passes
PutPri == 1
PutDelay == 0
ReleasePri == 1
\* a Release that passes the priority where the delay goes
ReleaseDelayed == ReleasePri
ReleaseDelay == 0

\* ------------------------------------------------------------------ values
\* a Go []string: nil or not, and its elements
NilArgs == [isnil |-> TRUE, elems |-> <<>>]
MkArgs(s) == [isnil |-> FALSE, elems |-> s]

\* the (Action, Args) contents callers construct messages with
Contents ==
    { [Action |-> "", Args |-> NilArgs],
      [Action |-> "A", Args |-> MkArgs(<<>>)],
      [Action |-> "A", Args |-> MkArgs(<<"x", "y">>)] }

\* the durations callers pass to Get
Timeouts == {"1s", "2s"}

\* errors are texts, kept as sequences of tokens; nil is the empty sequence
NoErr == <<>>
ErrUnknownMessage == <<"Unknown message.">>
ErrMessageNotFound == <<"Message not found.">>
ErrConfig == <<"\"queue-server\" is not defined in config file.">>
ErrTimedOut(t) == <<"Timed out waiting for message after", t>>
ErrInvalidMessage(body) == <<"Invalid message:", body.raw>>

\* errors of the beanstalk client
TErrDial == <<"dial tcp:", "connection refused">>
TErrNotFound(cmdname) == <<cmdname, "not found">>
TErrTimedOutReserve == <<"reserve-with-timeout:", "TIMED_OUT">>
TErrIO(cmdname) == <<cmdname, "EOF">>

EndsWith(e, tok) == Len(e) > 0 /\ e[Len(e)] = tok
timeoutRegexp(e) == EndsWith(e, "TIMED_OUT")
notFoundRegexp(e) == EndsWith(e, "not found")

\* ------------------------------------------------------------------- state
VARIABLES
    conn,        \* the package variable conn: NilConn or a connection
    mut,         \* the package variable mut: "" when unlocked, else its holder
    configured,  \* whether the configuration defines "queue-server"
    nconns,      \* connections dialed so far (the next one is nconns + 1)
    jobs,        \* the server's jobs, by id: [body, st, orig]
    crashed,     \* a goroutine panicked (nil pointer dereference)
    pc,          \* where each goroutine is
    op,          \* the operation each goroutine runs: [name, timeout, rid]
    msg,         \* each goroutine's *Message: [Action, Args, id]
    lconn,       \* the connection connection() returned to the goroutine
    res,         \* the error the operation returned
    hist         \* what the operation did on the transport, in order

vars == <<conn, mut, configured, nconns, jobs, crashed, pc, op, msg, lconn, res, hist>>

NoOp == [name |-> "", timeout |-> "", rid |-> NoId]
NewMsg(c) == [Action |-> c.Action, Args |-> c.Args, id |-> NoId]

Init ==
    /\ conn = NilConn
    /\ mut = ""
    /\ configured \in BOOLEAN
    /\ nconns = 0
    /\ jobs = <<>>
    /\ crashed = FALSE
    /\ pc = [p \in Procs |-> "idle"]
    /\ op = [p \in Procs |-> NoOp]
    /\ msg \in [Procs -> {NewMsg(c) : c \in Contents}]
    /\ lconn = [p \in Procs |-> NilConn]
    /\ res = [p \in Procs |-> NoErr]
    /\ hist = [p \in Procs |-> <<>>]

\* number of events e in a history
RECURSIVE Count(_, _)
Count(h, e) ==
    IF h = <<>> THEN 0
    ELSE (IF h[1].e = e THEN 1 ELSE 0) + Count(Tail(h), e)

Last(h) == h[Len(h)]
Ev(e, c) == [e |-> e, c |-> c]
Log(p, e, c) == hist' = [hist EXCEPT ![p] = Append(@, Ev(e, c))]

\* the operation returns err to its caller
Finish(p, err) ==
    /\ pc' = [pc EXCEPT ![p] = "done"]
    /\ res' = [res EXCEPT ![p] = err]

\* a method call on a nil *beanstalk.Conn panics
Panic ==
    /\ crashed' = TRUE
    /\ UNCHANGED <<conn, mut, configured, nconns, jobs, pc, op, msg, lconn, res, hist>>

\* ------------------------------------------------------------ connection()
\* where the body of each operation starts, once connection() has returned
BodyOf(name) ==
    CASE name = "Put" -> "put"
      [] name = "Get" -> "reserve"
      [] name = "Delete" -> "delete"
      [] name = "Release" -> "release"

\* a dial that fails and leaves conn as it was
DialFailConnKept(old) == old

\* conn, err = beanstalk.Dial("tcp", addr): the value a failed dial leaves in conn
DialFailConn(old) == NilConn

\* mut.Lock(); if conn == nil { mut.Unlock() ...
connection_Lock(p) ==
    /\ ~crashed /\ pc[p] = "c_lock"
    /\ mut = ""
    /\ IF conn = NilConn
       THEN /\ pc' = [pc EXCEPT ![p] = "c_config"]
            /\ mut' = ""
       ELSE /\ pc' = [pc EXCEPT ![p] = "c_probe"]
            /\ mut' = p
    /\ UNCHANGED <<conn, configured, nconns, jobs, crashed, op, msg, lconn, res, hist>>

\* a connection() that goes on to dial whatever the lookup of the address gave
connection_ConfigIgnored(p) ==
    /\ ~crashed /\ pc[p] = "c_config"
    /\ pc' = [pc EXCEPT ![p] = "c_dial"]
    /\ UNCHANGED <<conn, mut, configured, nconns, jobs, crashed, op, msg, lconn, res, hist>>

\* addr, err = config.GetString("queue-server")
connection_Config(p) ==
    /\ ~crashed /\ pc[p] = "c_config"
    /\ IF configured
       THEN /\ pc' = [pc EXCEPT ![p] = "c_dial"]
            /\ UNCHANGED res
       ELSE Finish(p, ErrConfig)
    /\ UNCHANGED <<conn, mut, configured, nconns, jobs, crashed, op, msg, lconn, hist>>

\* mut.Lock(); if conn, err = beanstalk.Dial("tcp", addr); err != nil {...}:
\* the server accepts the connection
connection_DialOk(p) ==
    /\ ~crashed /\ pc[p] = "c_dial"
    /\ mut = ""
    /\ nconns < MaxConns
    /\ nconns' = nconns + 1
    /\ conn' = nconns + 1
    /\ mut' = p
    /\ pc' = [pc EXCEPT ![p] = "c_probe"]
    /\ Log(p, "dial", nconns + 1)
    /\ UNCHANGED <<configured, jobs, crashed, op, msg, lconn, res>>

\* a failed dial that returns without its mut.Unlock()
DialFailMutHeld(p) == p

\* mut.Unlock() on the path of the failed dial: who holds mut afterwards
DialFailMut(p) == ""

\* mut.Lock(); if conn, err = beanstalk.Dial("tcp", addr); err != nil {
\*     mut.Unlock(); return nil, err }: the dial fails
connection_DialFail(p) ==
    /\ ~crashed /\ pc[p] = "c_dial"
    /\ mut = ""
    /\ conn' = DialFailConn(conn)
    /\ mut' = DialFailMut(p)
    /\ Log(p, "dialfail", NilConn)
    /\ Finish(p, TErrDial)
    /\ UNCHANGED <<configured, nconns, jobs, crashed, op, msg, lconn>>

\* conn.ListTubes() on a nil conn (another goroutine has reset it): a panic
connection_ProbeNil(p) ==
    /\ ~crashed /\ pc[p] = "c_probe"
    /\ conn = NilConn
    /\ Panic

\* if _, err = conn.ListTubes(); err != nil {...}; mut.Unlock(): the probe passes
connection_ProbeOk(p) ==
    /\ ~crashed /\ pc[p] = "c_probe"
    /\ conn # NilConn
    /\ pc' = [pc EXCEPT ![p] = "c_return"]
    /\ Log(p, "probeok", conn)
    /\ mut' = ""
    /\ UNCHANGED <<conn, configured, nconns, jobs, crashed, op, msg, lconn, res>>

\* if _, err = conn.ListTubes(); err != nil { mut.Unlock(): the probe fails
connection_ProbeFail(p) ==
    /\ ~crashed /\ pc[p] = "c_probe"
    /\ conn # NilConn
    /\ pc' = [pc EXCEPT ![p] = "c_reset"]
    /\ Log(p, "probefail", conn)
    /\ mut' = ""
    /\ UNCHANGED <<conn, configured, nconns, jobs, crashed, op, msg, lconn, res>>

\* conn = nil; return connection()
connection_Reset(p) ==
    /\ ~crashed /\ pc[p] = "c_reset"
    /\ conn' = NilConn
    /\ pc' = [pc EXCEPT ![p] = "c_lock"]
    /\ UNCHANGED <<mut, configured, nconns, jobs, crashed, op, msg, lconn, res, hist>>

\* return conn, err
connection_Return(p) ==
    /\ ~crashed /\ pc[p] = "c_return"
    /\ lconn' = [lconn EXCEPT ![p] = conn]
    /\ pc' = [pc EXCEPT ![p] = BodyOf(op[p].name)]
    /\ UNCHANGED <<conn, mut, configured, nconns, jobs, crashed, op, msg, res, hist>>


\* ------------------------------------------------------------ wire payload
\* the fields of Message that encoding/gob transmits: the exported ones
ExportedFields == {"Action", "Args"}

\* gob omits a field holding the zero value of its type ("" and a slice of
\* length 0, nil or not)
IsZeroField(m, f) ==
    CASE f = "Action" -> m.Action = ""
      [] f = "Args" -> Len(m.Args.elems) = 0
      [] f = "id" -> m.id = NoId

\* an encoding that transmits the action alone
EncodeActionOnly(m) ==
    [raw |-> "gob",
     fields |-> {f \in {"Action"} : ~IsZeroField(m, f)},
     Action |-> m.Action,
     Args |-> <<>>,
     id |-> NoId]

\* gob.NewEncoder(&buf).Encode(msg)
Encode(m) ==
    LET sent == {f \in ExportedFields : ~IsZeroField(m, f)}
    IN [raw |-> "gob",
        fields |-> sent,
        Action |-> IF "Action" \in sent THEN m.Action ELSE "",
        Args |-> IF "Args" \in sent THEN m.Args.elems ELSE <<>>,
        id |-> IF "id" \in sent THEN m.id ELSE NoId]

\* payloads of other producers: bytes that are no gob stream, and no bytes
CorruptBody == [raw |-> "corrupt", fields |-> {}, Action |-> "", Args |-> <<>>, id |-> NoId]
EmptyBody == [raw |-> "", fields |-> {}, Action |-> "", Args |-> <<>>, id |-> NoId]
ForeignBodies == {CorruptBody, EmptyBody}

\* var msg Message; err = gob.NewDecoder(r).Decode(&msg): a field that was
\* not transmitted keeps its zero value
Decode(body) ==
    CASE body.raw = "gob" ->
            [err |-> "",
             m |-> [Action |-> IF "Action" \in body.fields THEN body.Action ELSE "",
                    Args |-> IF "Args" \in body.fields THEN MkArgs(body.Args) ELSE NilArgs,
                    id |-> IF "id" \in body.fields THEN body.id ELSE NoId]]
      [] body.raw = "" ->
            [err |-> "EOF", m |-> [Action |-> "", Args |-> NilArgs, id |-> NoId]]
      [] OTHER ->
            [err |-> "gob: bad data", m |-> [Action |-> "", Args |-> NilArgs, id |-> NoId]]

\* -------------------------------------------------------- the queue server
\* a job as put: its payload, ready; orig keeps what the producer handed over
\* a job with no delay is ready at once; a delayed one waits its delay out
Queued(delay) == IF delay = 0 THEN "ready" ELSE "delayed"
Job(body, orig, pri, delay) ==
    [body |-> body, st |-> Queued(delay), orig |-> orig, pri |-> pri]
Content(m) == [Action |-> m.Action, Args |-> m.Args]
NoContent == [Action |-> "", Args |-> NilArgs]
JobIds == 1..Len(jobs)
Ready == {i \in JobIds : jobs[i].st = "ready"}
Min(S) == CHOOSE i \in S : \A j \in S : i <= j

\* delete <id>: the job is removed when the server still has it
CanDelete(i) == i \in JobIds /\ jobs[i].st # "deleted"
\* release <id>: the job goes back to ready when it is reserved
CanRelease(i) == i \in JobIds /\ jobs[i].st = "reserved"

SetSt(i, st) == [jobs EXCEPT ![i].st = st]
\* release <id> <pri> <delay>
Requeue(i, pri, delay) == [jobs EXCEPT ![i].st = Queued(delay), ![i].pri = pri]

\* the reservation of a job runs out (time-to-run): the server makes it ready
ReservationTimeout(i) ==
    /\ ~crashed
    /\ i \in JobIds /\ jobs[i].st = "reserved"
    /\ jobs' = SetSt(i, "ready")
    /\ UNCHANGED <<conn, mut, configured, nconns, crashed, pc, op, msg, lconn, res, hist>>

\* the configuration is reloaded without the "queue-server" key
ConfigUnset ==
    /\ ~crashed /\ configured
    /\ configured' = FALSE
    /\ UNCHANGED <<conn, mut, nconns, jobs, crashed, pc, op, msg, lconn, res, hist>>

\* another producer puts a payload this package did not encode
ForeignPut(body) ==
    /\ ~crashed
    /\ Len(jobs) < MaxJobs
    /\ jobs' = Append(jobs, Job(body, NoContent, PutPri, PutDelay))
    /\ UNCHANGED <<conn, mut, configured, nconns, crashed, pc, op, msg, lconn, res, hist>>

\* -------------------------------------------------------------- operations
Begin(p, name, t) ==
    /\ op' = [op EXCEPT ![p] = [name |-> name, timeout |-> t, rid |-> NoId]]
    /\ hist' = [hist EXCEPT ![p] = <<>>]

\* a caller builds a fresh message: &Message{Action: ..., Args: ...}
NewMessage(p, c) ==
    /\ ~crashed /\ pc[p] = "idle"
    /\ msg[p] # NewMsg(c)
    /\ msg' = [msg EXCEPT ![p] = NewMsg(c)]
    /\ UNCHANGED <<conn, mut, configured, nconns, jobs, crashed, pc, op, lconn, res, hist>>

\* the caller takes the result; the goroutine is free for its next call
Return(p) ==
    /\ ~crashed /\ pc[p] = "done"
    /\ pc' = [pc EXCEPT ![p] = "idle"]
    /\ op' = [op EXCEPT ![p] = NoOp]
    /\ res' = [res EXCEPT ![p] = NoErr]
    /\ hist' = [hist EXCEPT ![p] = <<>>]
    /\ lconn' = [lconn EXCEPT ![p] = NilConn]
    /\ UNCHANGED <<conn, mut, configured, nconns, jobs, crashed, msg>>

\* ---- Put
CallPut(p) ==
    /\ ~crashed /\ pc[p] = "idle"
    /\ Begin(p, "Put", "")
    /\ pc' = [pc EXCEPT ![p] = "c_lock"]
    /\ UNCHANGED <<conn, mut, configured, nconns, jobs, crashed, msg, lconn, res>>

\* id, err := conn.Put(...); msg.id = id: the id Put leaves in the message
PutStoredId(old, id, err) == id

\* err = gob.NewEncoder(&buf).Encode(msg); id, err := conn.Put(buf.Bytes(), 1, 0, 60e9)
\* (encoding a Message, a string and a []string, does not fail)
PutBody(p) ==
    /\ ~crashed /\ pc[p] = "put"
    /\ IF lconn[p] = NilConn
       THEN Panic
       ELSE /\ \/ /\ Len(jobs) < MaxJobs
                  /\ jobs' = Append(jobs, Job(Encode(msg[p]), Content(msg[p]),
                                                  PutPri, PutDelay))
                  /\ msg' = [msg EXCEPT ![p].id = PutStoredId(@, Len(jobs) + 1, NoErr)]
                  /\ Log(p, "put", lconn[p])
                  /\ Finish(p, NoErr)
               \/ /\ msg' = [msg EXCEPT ![p].id = PutStoredId(@, NoId, TErrIO("put"))]
                  /\ Log(p, "putfail", lconn[p])
                  /\ Finish(p, TErrIO("put"))
                  /\ UNCHANGED jobs
            /\ UNCHANGED <<conn, mut, configured, nconns, crashed, op, lconn>>

\* ---- Get
CallGet(p, t) ==
    /\ ~crashed /\ pc[p] = "idle"
    /\ Begin(p, "Get", t)
    /\ pc' = [pc EXCEPT ![p] = "c_lock"]
    /\ UNCHANGED <<conn, mut, configured, nconns, jobs, crashed, msg, lconn, res>>

\* a Get that hands the error of the reservation on as it is
ReserveErrorRaw(terr, t) == terr

\* the error Get returns when conn.Reserve fails
ReserveError(terr, t) ==
    IF timeoutRegexp(terr) THEN ErrTimedOut(t) ELSE terr

\* a Get for which io.EOF is a decoding failure like any other
DecodeFailedOnEOF(d) == d.err # ""

\* err = gob.NewDecoder(r).Decode(&msg); err != nil && err != io.EOF
DecodeFailed(d) == d.err # "" /\ d.err # "EOF"

\* msg.id = id; return &msg, nil
GetMessage(d, id) == [d.m EXCEPT !.id = id]

\* id, body, err := conn.Reserve(timeout) and the decoding of body
GetBody(p) ==
    /\ ~crashed /\ pc[p] = "reserve"
    /\ IF lconn[p] = NilConn
       THEN Panic
       ELSE /\ \/ /\ Ready # {}
                  /\ LET id == Min(Ready)
                         d == Decode(jobs[id].body)
                     IN /\ jobs' = SetSt(id, "reserved")
                        /\ Log(p, "reserve", lconn[p])
                        /\ IF DecodeFailed(d)
                           THEN /\ pc' = [pc EXCEPT ![p] = "cleanup"]
                                /\ op' = [op EXCEPT ![p].rid = id]
                                /\ UNCHANGED <<msg, res>>
                           ELSE /\ msg' = [msg EXCEPT ![p] = GetMessage(d, id)]
                                /\ Finish(p, NoErr)
                                /\ UNCHANGED op
               \/ /\ Ready = {}
                  /\ Log(p, "reservetimeout", lconn[p])
                  /\ Finish(p, ReserveError(TErrTimedOutReserve, op[p].timeout))
                  /\ UNCHANGED <<jobs, msg, op>>
               \/ /\ Log(p, "reservefail", lconn[p])
                  /\ Finish(p, ReserveError(TErrIO("reserve-with-timeout:"), op[p].timeout))
                  /\ UNCHANGED <<jobs, msg, op>>
            /\ UNCHANGED <<conn, mut, configured, nconns, crashed, lconn>>

\* a Get that reports the invalid payload and leaves the job on the server
GetCleanupSkipped(p) ==
    /\ ~crashed /\ pc[p] = "cleanup"
    /\ Finish(p, ErrInvalidMessage(jobs[op[p].rid].body))
    /\ UNCHANGED <<conn, mut, configured, nconns, jobs, crashed, op, msg, lconn, hist>>

\* conn.Delete(id); return nil, fmt.Errorf("Invalid message: %q", body)
GetCleanup(p) ==
    /\ ~crashed /\ pc[p] = "cleanup"
    /\ LET id == op[p].rid
       IN /\ \/ /\ CanDelete(id)
                /\ jobs' = SetSt(id, "deleted")
                /\ Log(p, "delete", lconn[p])
             \/ /\ ~CanDelete(id)
                /\ Log(p, "deletenotfound", lconn[p])
                /\ UNCHANGED jobs
             \/ /\ Log(p, "deletefail", lconn[p])
                /\ UNCHANGED jobs
          /\ Finish(p, ErrInvalidMessage(jobs[id].body))
    /\ UNCHANGED <<conn, mut, configured, nconns, crashed, op, msg, lconn>>

\* ---- Delete
CallDelete(p) ==
    /\ ~crashed /\ pc[p] = "idle"
    /\ Begin(p, "Delete", "")
    /\ pc' = [pc EXCEPT ![p] = "c_lock"]
    /\ UNCHANGED <<conn, mut, configured, nconns, jobs, crashed, msg, lconn, res>>

\* a Delete that drops the server's "not found" instead of reporting it
DeleteResultSwallowed(terr) ==
    IF terr # NoErr /\ notFoundRegexp(terr) THEN NoErr ELSE terr

\* err != nil && notFoundRegexp.MatchString(err.Error()): the error Delete returns
DeleteResult(terr) ==
    IF terr # NoErr /\ notFoundRegexp(terr) THEN ErrMessageNotFound ELSE terr

\* if msg.id == 0 { return errors.New("Unknown message.") }; err = conn.Delete(msg.id)
DeleteBody(p) ==
    /\ ~crashed /\ pc[p] = "delete"
    /\ IF msg[p].id = NoId
       THEN /\ Finish(p, ErrUnknownMessage)
            /\ UNCHANGED <<jobs, hist, crashed>>
       ELSE IF lconn[p] = NilConn
       THEN /\ crashed' = TRUE
            /\ UNCHANGED <<jobs, hist, pc, res>>
       ELSE /\ LET id == msg[p].id
               IN \/ /\ CanDelete(id)
                     /\ jobs' = SetSt(id, "deleted")
                     /\ Log(p, "delete", lconn[p])
                     /\ Finish(p, DeleteResult(NoErr))
                  \/ /\ ~CanDelete(id)
                     /\ UNCHANGED jobs
                     /\ Log(p, "deletenotfound", lconn[p])
                     /\ Finish(p, DeleteResult(TErrNotFound("delete:")))
                  \/ /\ UNCHANGED jobs
                     /\ Log(p, "deletefail", lconn[p])
                     /\ Finish(p, DeleteResult(TErrIO("delete:")))
            /\ UNCHANGED crashed
    /\ UNCHANGED <<conn, mut, configured, nconns, op, msg, lconn>>

\* ---- Release
\* a Release that hands every error of the transport on as it is
ReleaseResultRaw(terr) == terr

\* err != nil && notFoundRegexp.MatchString(err.Error()): the error Release returns
ReleaseResult(terr) ==
    IF terr # NoErr /\ notFoundRegexp(terr) THEN ErrMessageNotFound ELSE terr

\* if m.id == 0 { return errors.New("Unknown message.") }; conn, err := connection()
CallRelease(p) ==
    /\ ~crashed /\ pc[p] = "idle"
    /\ Begin(p, "Release", "")
    /\ IF msg[p].id = NoId
       THEN Finish(p, ErrUnknownMessage)
       ELSE /\ pc' = [pc EXCEPT ![p] = "c_lock"]
            /\ UNCHANGED res
    /\ UNCHANGED <<conn, mut, configured, nconns, jobs, crashed, msg, lconn>>

\* a Release that asks the server to delete the job
ReleaseBodyDeletes(p) ==
    /\ ~crashed /\ pc[p] = "release"
    /\ lconn[p] # NilConn
    /\ CanDelete(msg[p].id)
    /\ jobs' = SetSt(msg[p].id, "deleted")
    /\ Log(p, "release", lconn[p])
    /\ Finish(p, ReleaseResult(NoErr))
    /\ UNCHANGED <<conn, mut, configured, nconns, crashed, op, msg, lconn>>

\* err = conn.Release(m.id, 1, 0)
ReleaseBody(p) ==
    /\ ~crashed /\ pc[p] = "release"
    /\ IF lconn[p] = NilConn
       THEN Panic
       ELSE /\ LET id == msg[p].id
               IN \/ /\ CanRelease(id)
                     /\ jobs' = Requeue(id, ReleasePri, ReleaseDelay)
                     /\ Log(p, "release", lconn[p])
                     /\ Finish(p, ReleaseResult(NoErr))
                  \/ /\ ~CanRelease(id)
                     /\ Log(p, "releasenotfound", lconn[p])
                     /\ Finish(p, ReleaseResult(TErrNotFound("release:")))
                     /\ UNCHANGED jobs
                  \/ /\ Log(p, "releasefail", lconn[p])
                     /\ Finish(p, ReleaseResult(TErrIO("release:")))
                     /\ UNCHANGED jobs
            /\ UNCHANGED <<conn, mut, configured, nconns, crashed, op, msg, lconn>>

\* ----------------------------------------------------------- specification
Next ==
    \/ \E p \in Procs, c \in Contents : NewMessage(p, c)
    \/ \E p \in Procs : CallPut(p)
    \/ \E p \in Procs, t \in Timeouts : CallGet(p, t)
    \/ \E p \in Procs : CallDelete(p)
    \/ \E p \in Procs : CallRelease(p)
    \/ \E p \in Procs : connection_Lock(p)
    \/ \E p \in Procs : connection_Config(p)
    \/ \E p \in Procs : connection_DialOk(p)
    \/ \E p \in Procs : connection_DialFail(p)
    \/ \E p \in Procs : connection_ProbeNil(p)
    \/ \E p \in Procs : connection_ProbeOk(p)
    \/ \E p \in Procs : connection_ProbeFail(p)
    \/ \E p \in Procs : connection_Reset(p)
    \/ \E p \in Procs : connection_Return(p)
    \/ \E p \in Procs : PutBody(p)
    \/ \E p \in Procs : GetBody(p)
    \/ \E p \in Procs : GetCleanup(p)
    \/ \E p \in Procs : DeleteBody(p)
    \/ \E p \in Procs : ReleaseBody(p)
    \/ \E p \in Procs : Return(p)
    \/ \E b \in ForeignBodies : ForeignPut(b)
    \/ \E i \in 1..MaxJobs : ReservationTimeout(i)

\* The whole package: every goroutine, every operation, every outcome.  Its
\* properties are checked on the two parts below, which share no state but
\* conn: connection() reads neither the messages nor the jobs, and the
\* operations touch conn only through connection().
Spec == Init /\ [][Next]_vars

\* The connection on its own: both goroutines call Get, Delete and Release
\* against a server that holds no job, with messages never submitted, under
\* every outcome of the dial and of the probe.
InitConn ==
    /\ Init
    /\ \A p \in Procs : msg[p] = NewMsg([Action |-> "", Args |-> NilArgs])

NextConn ==
    \/ \E p \in Procs, t \in Timeouts : CallGet(p, t)
    \/ \E p \in Procs : CallDelete(p)
    \/ \E p \in Procs : CallRelease(p)
    \/ \E p \in Procs : connection_Lock(p)
    \/ \E p \in Procs : connection_Config(p)
    \/ \E p \in Procs : connection_DialOk(p)
    \/ \E p \in Procs : connection_DialFail(p)
    \/ \E p \in Procs : connection_ProbeNil(p)
    \/ \E p \in Procs : connection_ProbeOk(p)
    \/ \E p \in Procs : connection_ProbeFail(p)
    \/ \E p \in Procs : connection_Reset(p)
    \/ \E p \in Procs : connection_Return(p)
    \/ \E p \in Procs : GetBody(p)
    \/ \E p \in Procs : DeleteBody(p)
    \/ \E p \in Procs : Return(p)

SpecConn == InitConn /\ [][NextConn]_vars

\* The messages on their own: one goroutine runs the four operations on a
\* connection whose probe passes, next to another producer and to the
\* server's reservation timeout.
Caller == {"g1"}

NextMsg ==
    \/ \E p \in Caller, c \in Contents : NewMessage(p, c)
    \/ \E p \in Caller : CallPut(p)
    \/ \E p \in Caller, t \in Timeouts : CallGet(p, t)
    \/ \E p \in Caller : CallDelete(p)
    \/ \E p \in Caller : CallRelease(p)
    \/ \E p \in Caller : connection_Lock(p)
    \/ \E p \in Caller : connection_Config(p)
    \/ \E p \in Caller : connection_DialOk(p)
    \/ \E p \in Caller : connection_DialFail(p)
    \/ \E p \in Caller : connection_ProbeOk(p)
    \/ \E p \in Caller : connection_Return(p)
    \/ \E p \in Caller : PutBody(p)
    \/ \E p \in Caller : GetBody(p)
    \/ \E p \in Caller : GetCleanup(p)
    \/ \E p \in Caller : DeleteBody(p)
    \/ \E p \in Caller : ReleaseBody(p)
    \/ \E p \in Caller : Return(p)
    \/ \E b \in ForeignBodies : ForeignPut(b)
    \/ \E i \in 1..MaxJobs : ReservationTimeout(i)

SpecMsg == Init /\ [][NextMsg]_vars

\* One goroutine on a connection that may fail its probe, the configuration
\* losing its "queue-server" key at any moment: how the operations behave
\* when the address is not to be had.
NextCfg ==
    \/ \E p \in Caller : CallPut(p)
    \/ \E p \in Caller, t \in Timeouts : CallGet(p, t)
    \/ \E p \in Caller : CallDelete(p)
    \/ \E p \in Caller : CallRelease(p)
    \/ \E p \in Caller : connection_Lock(p)
    \/ \E p \in Caller : connection_Config(p)
    \/ \E p \in Caller : connection_DialOk(p)
    \/ \E p \in Caller : connection_DialFail(p)
    \/ \E p \in Caller : connection_ProbeOk(p)
    \/ \E p \in Caller : connection_ProbeFail(p)
    \/ \E p \in Caller : connection_Reset(p)
    \/ \E p \in Caller : connection_Return(p)
    \/ \E p \in Caller : PutBody(p)
    \/ \E p \in Caller : GetBody(p)
    \/ \E p \in Caller : DeleteBody(p)
    \/ \E p \in Caller : ReleaseBody(p)
    \/ \E p \in Caller : Return(p)
    \/ ConfigUnset

SpecCfg == Init /\ [][NextCfg]_vars

\* -------------------------------------------------------------- properties
\* what a call has done on the transport so far
Dials(p) == Count(hist[p], "dial") + Count(hist[p], "dialfail")
Probes(p) == Count(hist[p], "probeok") + Count(hist[p], "probefail")
\* connection() has returned a connection to the operation, which is running
InBody(p) == pc[p] \in {"put", "reserve", "cleanup", "delete", "release"}
\* the call found the shared handle absent at its first check
SawAbsent(p) ==
    \/ pc[p] \in {"c_config", "c_dial"}
    \/ hist[p] # <<>> /\ hist[p][1].e \in {"dial", "dialfail"}

\* C1: callers that run connection() at the same time, each finding the
\* handle absent and none seeing a dial or a probe fail, dial once between
\* them and are handed the same connection.
C1_OneDialSameConn ==
    \A p, q \in Procs :
        (/\ p # q
         /\ configured
         /\ SawAbsent(p) /\ SawAbsent(q)
         /\ Count(hist[p], "probefail") = 0 /\ Count(hist[q], "probefail") = 0
         /\ Count(hist[p], "dialfail") = 0 /\ Count(hist[q], "dialfail") = 0)
        => /\ Dials(p) + Dials(q) <= 1
           /\ (InBody(p) /\ InBody(q)) => lconn[p] = lconn[q]

\* C2: a goroutine about to read or write conn (the probe's read, the reset
\* after a failed probe, the read of the returned value) holds mut.
C2_ConnAccessUnderMut ==
    \A p \in Procs :
        pc[p] \in {"c_probe", "c_reset", "c_return"} => mut = p

\* C3: one call to connection() dials at most twice and probes at most twice.
C3_AtMostOneRestart ==
    \A p \in Procs : Dials(p) <= 2 /\ Probes(p) <= 2

\* C4: Delete and Release of a message whose id is unset return the unknown
\* message error and have made no call on the transport.
C4_UnknownMessageNoTransport ==
    \A p \in Procs :
        (/\ pc[p] = "done"
         /\ op[p].name \in {"Delete", "Release"}
         /\ msg[p].id = NoId)
        => /\ res[p] = ErrUnknownMessage
           /\ hist[p] = <<>>

\* C7: a call whose first probe fails on the existing connection, and whose
\* next dial and probe succeed, hands the operation the connection it dialed.
C7_TransparentRedial ==
    \A p \in Procs :
        (/\ InBody(p) \/ pc[p] = "done"
         /\ Len(hist[p]) >= 3
         /\ hist[p][1].e = "probefail"
         /\ hist[p][2].e = "dial"
         /\ hist[p][3].e = "probeok")
        => lconn[p] = hist[p][2].c

C5_PutThenDeleteOnce ==
    \A p \in Procs :
        /\ (pc[p] = "done" /\ op[p].name = "Put" /\ res[p] = NoErr)
           => /\ msg[p].id # NoId
              /\ msg[p].id \in JobIds
              /\ jobs[msg[p].id].body = Encode(msg[p])
              /\ jobs[msg[p].id].st # "deleted"
        /\ (pc[p] = "done" /\ op[p].name = "Delete" /\ msg[p].id # NoId /\ hist[p] # <<>>)
           => /\ (res[p] = NoErr) <=> (Last(hist[p]).e = "delete")
              /\ Last(hist[p]).e = "delete" => jobs[msg[p].id].st = "deleted"
              /\ Last(hist[p]).e = "deletenotfound" => res[p] = ErrMessageNotFound

\* a Delete of a message this package encoded, whose job is already deleted,
\* has returned the message-not-found error
C5_Witness ==
    \E p \in Procs :
        /\ pc[p] = "done" /\ op[p].name = "Delete"
        /\ msg[p].id \in JobIds
        /\ jobs[msg[p].id].st = "deleted"
        /\ jobs[msg[p].id].body = Encode(msg[p])
        /\ jobs[msg[p].id].orig = Content(msg[p])
        /\ Last(hist[p]).e = "deletenotfound"
        /\ res[p] = ErrMessageNotFound

\* C6: once a message's id is non-zero, no step of Put, Delete or Release on
\* that message changes it.
C6_IdSetOnce ==
    [][\A p \in Procs :
          (/\ msg[p].id # NoId
           /\ op[p].name \in {"Put", "Delete", "Release"})
          => msg'[p].id = msg[p].id]_vars

\* C9: a Get whose payload fails to decode returns the invalid-message error
\* and hands out no message for that job, after issuing a delete whose outcome
\* does not change the result; when that delete succeeds the job is deleted,
\* and a deleted job stays deleted.
C9_State ==
    \A p \in Procs :
        /\ (pc[p] = "done" /\ op[p].name = "Get" /\ op[p].rid # NoId)
           => /\ res[p] = ErrInvalidMessage(jobs[op[p].rid].body)
              /\ msg[p].id # op[p].rid
              /\ hist[p] # <<>>
              /\ Last(hist[p]).e \in {"delete", "deletenotfound", "deletefail"}
              /\ Last(hist[p]).e = "delete" => jobs[op[p].rid].st = "deleted"
        /\ (msg[p].id \in JobIds)
           => ~DecodeFailed(Decode(jobs[msg[p].id].body))

C9_Step ==
    \A i \in JobIds : jobs[i].st = "deleted" => jobs'[i].st = "deleted"

C9_InvalidMessageRemoved == []C9_State /\ [][C9_Step]_vars

\* a Get has returned the invalid-message error and its delete went through
C9_Witness ==
    \E p \in Procs :
        /\ pc[p] = "done" /\ op[p].name = "Get" /\ op[p].rid # NoId
        /\ res[p] = ErrInvalidMessage(CorruptBody)
        /\ Last(hist[p]).e = "delete"
        /\ jobs[op[p].rid].st = "deleted"

\* C10: a Get that returns a message for a job this package put returns the
\* action and the arguments, in order, that were handed to Put, with the id
\* the server gave the job; no payload carries the id.
C10_RoundTrip ==
    /\ \A p \in Procs :
          (/\ pc[p] = "done" /\ op[p].name = "Get" /\ res[p] = NoErr
           /\ op[p].rid = NoId /\ Last(hist[p]).e = "reserve")
          => /\ msg[p].id # NoId
             /\ msg[p].id \in JobIds
             /\ jobs[msg[p].id].body.raw = "gob"
                => /\ msg[p].Action = jobs[msg[p].id].orig.Action
                   /\ msg[p].Args.elems = jobs[msg[p].id].orig.Args.elems
    /\ \A i \in JobIds : "id" \notin jobs[i].body.fields /\ jobs[i].body.id = NoId

\* a Get has returned action "A" and arguments x, y as they were put, with
\* the id of the second job of the server
C10_Witness ==
    \E p \in Procs :
        /\ pc[p] = "done" /\ op[p].name = "Get" /\ res[p] = NoErr
        /\ msg[p].id \in JobIds
        /\ jobs[msg[p].id].body.raw = "gob"
        /\ jobs[msg[p].id].orig = [Action |-> "A", Args |-> MkArgs(<<"x", "y">>)]
        /\ msg[p].Action = "A"
        /\ msg[p].Args = MkArgs(<<"x", "y">>)
        /\ msg[p].id = 2

\* the state of entry i of the server before and after a step
StBefore(i) == IF i \in JobIds THEN jobs[i].st ELSE "unsubmitted"
StAfter(i) == jobs'[i].st
\* the step is the transport call of the operation name of this package
Did(name) == \E p \in Procs : pc[p] = BodyOf(name) /\ pc'[p] # pc[p]
DidCleanup == \E p \in Procs : pc[p] = "cleanup" /\ pc'[p] # pc[p]
\* the step is none of this package's: another producer, or the server
Outside == pc' = pc

\* C11 as stated: an entry changes state only from unsubmitted to in-queue by
\* Put, in-queue to reserved by Get, reserved to deleted by Delete, reserved to
\* in-queue by Release or by the reservation timeout, and never leaves deleted.
C11_LifecycleAsStated ==
    [][\A i \in 1..Len(jobs') :
          StBefore(i) # StAfter(i) =>
             \/ StBefore(i) = "unsubmitted" /\ StAfter(i) = "ready"
                  /\ (Did("Put") \/ Outside)
             \/ StBefore(i) = "ready" /\ StAfter(i) = "reserved" /\ Did("Get")
             \/ StBefore(i) = "reserved" /\ StAfter(i) = "deleted" /\ Did("Delete")
             \/ StBefore(i) = "reserved" /\ StAfter(i) = "ready"
                  /\ (Did("Release") \/ Outside)]_vars

\* C11: the transitions of C11 as stated, and two more: Delete takes an
\* in-queue entry to deleted as it does a reserved one, and so does the Delete
\* that Get issues for a payload that does not decode; an entry never leaves
\* deleted.
C11_Lifecycle ==
    [][\A i \in 1..Len(jobs') :
          StBefore(i) # StAfter(i) =>
             \/ StBefore(i) = "unsubmitted" /\ StAfter(i) = "ready"
                  /\ (Did("Put") \/ Outside)
             \/ StBefore(i) = "ready" /\ StAfter(i) = "reserved" /\ Did("Get")
             \/ StBefore(i) \in {"ready", "reserved"} /\ StAfter(i) = "deleted"
                  /\ (Did("Delete") \/ DidCleanup)
             \/ StBefore(i) = "reserved" /\ StAfter(i) = "ready"
                  /\ (Did("Release") \/ Outside)]_vars

\* an entry put by this package has been deleted, and a Release of another,
\* reserved, entry has put it back in the queue
C11_Witness ==
    \E p \in Procs, i \in JobIds :
        /\ pc[p] = "done" /\ op[p].name = "Release" /\ res[p] = NoErr
        /\ jobs[i].st = "deleted" /\ jobs[i].body.raw = "gob"
        /\ msg[p].id \in JobIds /\ msg[p].id # i
        /\ jobs[msg[p].id].st = "ready"

\* C12: once Release has succeeded on the message a Get reserved, the job is
\* ready again at once under the same id, at the priority Put gives and with
\* no delay, and its payload decodes to the id, action and arguments the
\* message holds, so the Get that reserves it next returns the same message.
C12_ReleasedIsReadyAgain ==
    \A p \in Procs :
        (pc[p] = "done" /\ op[p].name = "Release" /\ res[p] = NoErr) =>
            /\ msg[p].id \in JobIds
            /\ jobs[msg[p].id].st = "ready"
            /\ jobs[msg[p].id].pri = PutPri
            /\ GetMessage(Decode(jobs[msg[p].id].body), msg[p].id) = msg[p]

\* a Get step that reserves the job id returns the message this payload
\* decodes to under that id
C12_GetReturnsIt ==
    \A p \in Procs :
        (pc[p] = "reserve" /\ pc'[p] = "done" /\ res'[p] = NoErr) =>
            /\ msg'[p].id \in Ready
            /\ jobs'[msg'[p].id].st = "reserved"
            /\ msg'[p] = GetMessage(Decode(jobs[msg'[p].id].body), msg'[p].id)

C12_ReleaseThenGet == []C12_ReleasedIsReadyAgain /\ [][C12_GetReturnsIt]_vars

\* a released message with action and arguments, the only job ready: the next
\* Get reserves it
C12_Witness ==
    \E p \in Procs :
        /\ pc[p] = "done" /\ op[p].name = "Release" /\ res[p] = NoErr
        /\ msg[p].Action = "A" /\ msg[p].Args = MkArgs(<<"x", "y">>)
        /\ Ready = {msg[p].id}

\* what the server answered to the delete or release recorded as event e
TransportAnswer(e) ==
    CASE e = "delete" -> NoErr
      [] e = "release" -> NoErr
      [] e = "deletenotfound" -> TErrNotFound("delete:")
      [] e = "releasenotfound" -> TErrNotFound("release:")
      [] e = "deletefail" -> TErrIO("delete:")
      [] e = "releasefail" -> TErrIO("release:")
      [] OTHER -> NoErr

\* C13: a Delete or Release that reached the transport with a non-zero id
\* returns message-not-found exactly when the transport's error ends in
\* "not found", any other error of the transport as it is, and nil exactly
\* when the transport's call succeeded.
C13_NotFoundMapping ==
    \A p \in Procs :
        (/\ pc[p] = "done" /\ op[p].name \in {"Delete", "Release"}
         /\ msg[p].id # NoId /\ Len(hist[p]) > 0
         /\ Last(hist[p]).e \in {"delete", "deletenotfound", "deletefail",
                                 "release", "releasenotfound", "releasefail"}) =>
            LET terr == TransportAnswer(Last(hist[p]).e)
            IN /\ res[p] = ErrMessageNotFound <=> notFoundRegexp(terr)
               /\ (terr # NoErr /\ ~notFoundRegexp(terr)) => res[p] = terr
               /\ res[p] = NoErr <=> terr = NoErr

\* a Release of a message whose job the server no longer holds as reserved
C13_Witness ==
    \E p \in Procs :
        /\ pc[p] = "done" /\ op[p].name = "Release" /\ msg[p].id # NoId
        /\ Len(hist[p]) > 0 /\ Last(hist[p]).e = "releasenotfound"
        /\ res[p] = ErrMessageNotFound

\* a step in which the Get of p comes back from conn.Reserve with an error
ReserveFailed(p) ==
    /\ pc[p] = "reserve" /\ pc'[p] = "done"
    /\ Last(hist'[p]).e \in {"reservetimeout", "reservefail"}

\* C14: a Get whose reservation timed out, no message being available, returns
\* the timeout error that names the timeout it was called with, and a Get
\* whose reservation failed otherwise returns that error as it is; neither
\* hands out a message.
C14_GetErrors ==
    [][\A p \in Procs :
          ReserveFailed(p) =>
             /\ msg' = msg /\ jobs' = jobs
             /\ Last(hist'[p]).e = "reservetimeout" =>
                    res'[p] = ErrTimedOut(op[p].timeout)
             /\ Last(hist'[p]).e = "reservefail" =>
                    res'[p] = TErrIO("reserve-with-timeout:")]_vars

\* a Get called with the second of the timeouts has timed out
C14_Witness ==
    \E p \in Procs :
        /\ pc[p] = "done" /\ op[p].name = "Get" /\ op[p].timeout = "1s"
        /\ Len(hist[p]) > 0 /\ Last(hist[p]).e = "reservetimeout"
        /\ res[p] = ErrTimedOut("1s") /\ Ready = {}

\* the operations that go through connection() before they look at the id
UsesConnection(p) == op[p].name \in {"Put", "Get", "Delete"} \/ msg[p].id # NoId
\* the events of the calls an operation makes on the connection it was given
BodyEvents ==
    {"put", "putfail", "reserve", "reservetimeout", "reservefail", "delete",
     "deletenotfound", "deletefail", "release", "releasenotfound", "releasefail"}

\* connection() has found the handle absent and the address is not defined:
\* its next step returns the configuration error, with no dial or other call
\* on the transport, not holding mut, the handle left as it was, absent
C15_ConfigStep ==
    \A p \in Procs :
        (pc[p] = "c_config" /\ ~configured /\ pc'[p] # pc[p]) =>
            /\ pc'[p] = "done" /\ res'[p] = ErrConfig
            /\ hist'[p] = hist[p] /\ jobs' = jobs /\ nconns' = nconns
            /\ mut # p /\ mut' # p
            /\ conn' = conn /\ conn' = NilConn
            /\ msg' = msg

\* an operation that returned the configuration error is a Put, a Get, a
\* Delete or a Release of a message with an id, and has made none of its own
\* calls on the transport
C15_ConfigState ==
    \A p \in Procs :
        (pc[p] = "done" /\ res[p] = ErrConfig) =>
            /\ UsesConnection(p)
            /\ \A i \in 1..Len(hist[p]) : hist[p][i].e \notin BodyEvents
            /\ mut # p

\* C15: with the handle absent and "queue-server" not defined, connection()
\* returns the configuration error without dialing, without holding mut and
\* with the handle still absent, and Put, Get and the Release of a message
\* with an id return that error having made no call on the transport.
C15_ConfigurationError == []C15_ConfigState /\ [][C15_ConfigStep]_vars

\* the Release of a message that has an id has returned the configuration
\* error, without any call on the transport
C15_Witness ==
    \E p \in Procs :
        /\ pc[p] = "done" /\ op[p].name = "Release" /\ msg[p].id # NoId
        /\ res[p] = ErrConfig /\ hist[p] = <<>> /\ conn = NilConn

\* C16: whenever connection() has returned without an error, the connection it
\* handed to the operation is not nil and passed the probe inside that call.
C16_ReturnsProbedConn ==
    \A p \in Procs :
        InBody(p) =>
            /\ lconn[p] # NilConn
            /\ \E i \in 1..Len(hist[p]) : hist[p][i] = Ev("probeok", lconn[p])

\* C17: a Put that returns an error leaves the id of the message as it was
\* before the call.
C17_FailedPutKeepsId ==
    [][\A p \in Procs :
          (op[p].name = "Put" /\ pc[p] # "done" /\ pc'[p] = "done"
           /\ res'[p] # NoErr) => msg'[p].id = msg[p].id]_vars

\* p is blocked in mut.Lock()
WaitsForMut(p) == pc[p] \in {"c_lock", "c_dial"} /\ mut # ""

\* p holds mut exactly between its Lock and the Unlock after its probe, so
\* not when it is about to Lock and not once connection() has returned
C18_HeldOnlyAtProbe ==
    /\ mut \in Procs \cup {""}
    /\ \A p \in Procs : mut = p <=> pc[p] = "c_probe"
    /\ \A p \in Procs :
           (WaitsForMut(p) /\ ~crashed) =>
               \E q \in Procs \ {p} : mut = q /\ pc[q] = "c_probe"

\* mut is taken only when free and given up only by its holder, in a step of
\* the holder's own
C18_LockStep ==
    \A p \in Procs :
        /\ (mut # p /\ mut' = p) => mut = ""
        /\ (mut = p /\ mut' # p) => (mut' = "" /\ pc'[p] # pc[p])

\* C18: connection() never unlocks mut without holding it, never locks it
\* while holding it and never returns holding it, and a goroutine waiting for
\* mut always has the holder ahead of it, about to unlock.
C18_MutBalanced == []C18_HeldOnlyAtProbe /\ [][C18_LockStep]_vars

\* one goroutine holds mut at its probe while the other, which found the
\* handle absent, waits for mut to dial
C18_Witness ==
    \E p, q \in Procs :
        /\ p # q /\ ~crashed
        /\ mut = p /\ pc[p] = "c_probe"
        /\ pc[q] = "c_dial"

\* the payload of job i decodes to a clean end of input
DecodesToEOF(i) == Decode(jobs[i].body).err = "EOF"

\* a Get step that reserves a job whose payload decodes to a clean end of
\* input returns at once, without an error, the message with the id of that
\* job, and leaves the job reserved
C19_EOFStep ==
    \A p \in Procs :
        (/\ pc[p] = "reserve" /\ pc'[p] # pc[p] /\ ~crashed'
         /\ Last(hist'[p]).e = "reserve"
         /\ DecodesToEOF(Min(Ready))) =>
            /\ pc'[p] = "done" /\ res'[p] = NoErr
            /\ msg'[p].id = Min(Ready) /\ msg'[p].id # NoId
            /\ op'[p].rid = NoId
            /\ jobs'[Min(Ready)].st = "reserved"

\* the job a Get returned for such a payload is not deleted while the Get's
\* result stands, and the Get made no call after the reservation
C19_EOFState ==
    \A p \in Procs :
        (/\ pc[p] = "done" /\ op[p].name = "Get" /\ res[p] = NoErr
         /\ msg[p].id \in JobIds /\ DecodesToEOF(msg[p].id)) =>
            /\ jobs[msg[p].id].st # "deleted"
            /\ Last(hist[p]).e = "reserve"

\* C19: a decode that ends with a clean end of input is a success: Get
\* returns a message with the id of the reservation and no error, and does
\* not delete the job, which stays reserved.
C19_EOFIsSuccess == []C19_EOFState /\ [][C19_EOFStep]_vars

\* a Get has returned the message of an empty payload, the job still reserved
C19_Witness ==
    \E p \in Procs :
        /\ pc[p] = "done" /\ op[p].name = "Get" /\ res[p] = NoErr
        /\ msg[p].id \in JobIds /\ jobs[msg[p].id].body = EmptyBody
        /\ jobs[msg[p].id].st = "reserved"

====
